---- MODULE Spec2Model ----
(***************************************************************************)
(* Time-expanded timetable graph and group path search of                  *)
(* mcf-problem-solver: the graph builder (model/mod.rs), the depth-first   *)
(* path enumeration, Group::search_paths (model/group.rs), the greedy      *)
(* augmentation that charges a group onto its best path, and the           *)
(* simulated annealing over the groups' candidate paths                    *)
(* (optimization/simulated_annealing_elias.rs).                            *)
(*                                                                         *)
(* Node and edge indices are arena positions as in petgraph (1-based       *)
(* here); 0 stands for Option::None.                                       *)
(***************************************************************************)
EXTENDS Integers, Sequences, FiniteSets, TLC

VARIABLES
    pc,            \* "build" | "built" | "search" | "augment" | "done" | "panic"
    input,         \* the timetable handed to the builder
    model,         \* Model { graph, stations_departures, station_arrival_main_node_indices }
    groups,        \* Vec<Group>, each with its paths
    budget_steps,  \* the budget steps handed to search_paths
    cur,           \* index of the group the solver is working on
    found,         \* return values of search_paths, one per processed group
    sa,            \* simulated_annealing: seed, time and the current state of two runs
    dfs            \* one enumeration in progress: its call stack, visited and paths

vars == <<pc, input, model, groups, budget_steps, cur, found, sa, dfs>>

\* ------------------------------------------------------------------ bounds

\* number of groups in one batch
MaxGroups == 2

\* largest max_depth tried on the depth-bounded enumeration
MaxDepth == 6

\* largest single budget tried on the enumeration by budget
MaxBudget == 20

\* number of seeds the annealing is started with
MaxSeed == 2

\* stand-in for u64::MAX: the largest integer the checker represents
U64_MAX == 2147483647

\* ------------------------------------------------------------- arithmetic

\* u64 subtraction as the release build computes it (wrapping); the debug
\* build panics where this wraps
sub_u64(a, b) == IF a >= b THEN a - b ELSE U64_MAX - (b - a) + 1

\* ------------------------------------------------------- weights (mod.rs)

Arrival(trip_id, time, station_id) ==
    [kind |-> "Arrival", trip_id |-> trip_id, time |-> time, station_id |-> station_id]

Departure(trip_id, time, station_id) ==
    [kind |-> "Departure", trip_id |-> trip_id, time |-> time, station_id |-> station_id]

Transfer(time, station_id) ==
    [kind |-> "Transfer", trip_id |-> 0, time |-> time, station_id |-> station_id]

MainArrival(station_id) ==
    [kind |-> "MainArrival", trip_id |-> 0, time |-> 0, station_id |-> station_id]

RideToStation(duration, capacity, utilization) ==
    [kind |-> "RideToStation", duration |-> duration, capacity |-> capacity,
     utilization |-> utilization]

\* an edge kind that carries a duration only (StayInTrain, Alight,
\* StayAtStation, WalkToStation) or nothing (Embark, MainArrivalRelation)
OtherEdge(kind, duration) ==
    [kind |-> kind, duration |-> duration, capacity |-> 0, utilization |-> 0]

is_ride_to_station(w) == w.kind = "RideToStation"

get_duration(w) ==
    IF w.kind \in {"RideToStation", "StayInTrain", "Alight", "StayAtStation",
                   "WalkToStation"}
    THEN w.duration
    ELSE 0

get_capacity(w) == IF is_ride_to_station(w) THEN w.capacity ELSE U64_MAX

get_utilization(w) == IF is_ride_to_station(w) THEN w.utilization ELSE 0

\* mutant: the addend is put on every edge, whatever its kind
increase_utilization_every_edge(w, addend) == [w EXCEPT !.utilization = @ + addend]

\* mutant: the addend replaces the utilization instead of being added to it
increase_utilization_set(w, addend) ==
    IF is_ride_to_station(w) THEN [w EXCEPT !.utilization = addend] ELSE w

increase_utilization(w, addend) ==
    IF is_ride_to_station(w) THEN [w EXCEPT !.utilization = @ + addend] ELSE w

\* mutant: the remaining capacity ignores what is already used
get_remaining_capacity_total(w) ==
    IF is_ride_to_station(w) THEN w.capacity ELSE U64_MAX

get_remaining_capacity(w) ==
    IF is_ride_to_station(w) THEN sub_u64(w.capacity, w.utilization) ELSE U64_MAX

\* ------------------------------------------------------------ graph arena

EmptyGraph == [nodes |-> <<>>, edges |-> <<>>]

add_node(g, w) == [g EXCEPT !.nodes = Append(@, w)]

add_edge(g, a, b, w) ==
    [g EXCEPT !.edges = Append(@, [source |-> a, target |-> b, weight |-> w])]

\* a HashMap kept as a sequence of <<key, value>> in insertion order
MapHas(m, k) == \E i \in 1..Len(m) : m[i][1] = k

MapGet(m, k) ==
    IF \E i \in 1..Len(m) : m[i][1] = k
    THEN m[CHOOSE i \in 1..Len(m) : m[i][1] = k][2]
    ELSE 0

MapInsert(m, k, v) ==
    IF \E i \in 1..Len(m) : m[i][1] = k
    THEN [i \in 1..Len(m) |-> IF m[i][1] = k THEN <<k, v>> ELSE m[i]]
    ELSE Append(m, <<k, v>>)

\* sort_unstable_by_key on the first tuple element; equal keys may come out in
\* any order: tie = FALSE keeps them as pushed, tie = TRUE swaps them
RECURSIVE InsertByKey(_, _, _)
InsertByKey(sorted, x, tie) ==
    IF sorted = <<>> THEN <<x>>
    ELSE IF x[1] < Head(sorted)[1] \/ (tie /\ x[1] = Head(sorted)[1])
         THEN <<x>> \o sorted
         ELSE <<Head(sorted)>> \o InsertByKey(Tail(sorted), x, tie)

\* mutant: the list is left in the order the transfers were pushed
sort_unstable_by_key_skipped(list, tie) == list

RECURSIVE sort_unstable_by_key(_, _)
sort_unstable_by_key(list, tie) ==
    IF list = <<>> THEN <<>>
    ELSE InsertByKey(sort_unstable_by_key(SubSeq(list, 1, Len(list) - 1), tie),
                     list[Len(list)], tie)

\* mutant: a transfer at exactly the earliest time is passed over
FirstTransferFrom_strict(transfer_node_indices, earliest) ==
    IF \E i \in 1..Len(transfer_node_indices) : earliest < transfer_node_indices[i][1]
    THEN transfer_node_indices[
            CHOOSE i \in 1..Len(transfer_node_indices) :
                /\ earliest < transfer_node_indices[i][1]
                /\ \A j \in 1..(i - 1) : ~(earliest < transfer_node_indices[j][1])][2]
    ELSE 0

\* first (time, node) of a transfer list with earliest <= time, 0 if none
\* (the for ... break loops of the builder and of find_start_node_index)
FirstTransferFrom(transfer_node_indices, earliest) ==
    IF \E i \in 1..Len(transfer_node_indices) : earliest <= transfer_node_indices[i][1]
    THEN transfer_node_indices[
            CHOOSE i \in 1..Len(transfer_node_indices) :
                /\ earliest <= transfer_node_indices[i][1]
                /\ \A j \in 1..(i - 1) : ~(earliest <= transfer_node_indices[j][1])][2]
    ELSE 0

\* ---------------------------------------------------------- graph builder

StationIds(in) == {in.stations[i].id : i \in 1..Len(in.stations)}

\* station::Station::from_maps_to_map: one entry per station
NewStationsMap(in) ==
    [s \in StationIds(in) |->
        [transfer_time |->
            in.stations[CHOOSE i \in 1..Len(in.stations) : in.stations[i].id = s].transfer_time,
         arrival_node_indices |-> <<>>,
         departure_node_indices |-> <<>>,
         transfer_node_indices |-> <<>>]]

NewBuild(in) ==
    [graph |-> EmptyGraph,
     stations_map |-> NewStationsMap(in),
     stations_departures |-> <<>>,
     station_arrival_main_node_indices |-> <<>>]

\* the two unwrap()s on stations_map.get_mut in the trips pass
TripsStationsKnown(in) ==
    \A k \in 1..Len(in.trips) :
        /\ in.trips[k].to_station \in StationIds(in)
        /\ in.trips[k].from_station \in StationIds(in)

RECURSIVE trips_pass(_, _, _)
trips_pass(b, trips, k) ==
    IF k > Len(trips) THEN b
    ELSE
        LET trip == trips[k]
            arrival_node_index == Len(b.graph.nodes) + 1
            departure_node_index == Len(b.graph.nodes) + 2
            g1 == add_node(b.graph, Arrival(trip.id, trip.arrival, trip.to_station))
            g2 == add_node(g1, Departure(trip.id, trip.departure, trip.from_station))
            g3 == add_edge(g2, departure_node_index, arrival_node_index,
                           RideToStation(sub_u64(trip.arrival, trip.departure),
                                         trip.capacity, 0))
            sm1 == [b.stations_map EXCEPT ![trip.to_station].arrival_node_indices =
                        MapInsert(@, trip.id, arrival_node_index)]
            sm2 == [sm1 EXCEPT ![trip.from_station].departure_node_indices =
                        MapInsert(@, trip.id, departure_node_index)]
        IN trips_pass([b EXCEPT !.graph = g3, !.stations_map = sm2], trips, k + 1)

\* one station's departures: Transfer node, Embark edge, StayInTrain edge
RECURSIVE departures_pass(_, _, _)
departures_pass(b, station_id, k) ==
    LET station == b.stations_map[station_id] IN
    IF k > Len(station.departure_node_indices) THEN b
    ELSE
        LET trip_id == station.departure_node_indices[k][1]
            departure_node_index == station.departure_node_indices[k][2]
            departure_node_time == b.graph.nodes[departure_node_index].time
            departure_transfer_node_index == Len(b.graph.nodes) + 1
            g1 == add_node(b.graph, Transfer(departure_node_time, station_id))
            g2 == add_edge(g1, departure_transfer_node_index, departure_node_index,
                           OtherEdge("Embark", 0))
            arrival_node_index == MapGet(station.arrival_node_indices, trip_id)
            g3 == IF arrival_node_index # 0
                  THEN add_edge(g2, arrival_node_index, departure_node_index,
                                OtherEdge("StayInTrain",
                                          sub_u64(departure_node_time,
                                                  g2.nodes[arrival_node_index].time)))
                  ELSE g2
            sm == [b.stations_map EXCEPT ![station_id].transfer_node_indices =
                        Append(@, <<departure_node_time, departure_transfer_node_index>>)]
        IN departures_pass([b EXCEPT !.graph = g3, !.stations_map = sm], station_id, k + 1)

\* transfer_node_indices.windows(2): StayAtStation edges
RECURSIVE transfers_pass(_, _, _)
transfers_pass(g, transfer_node_indices, k) ==
    IF k + 1 > Len(transfer_node_indices) THEN g
    ELSE transfers_pass(
            add_edge(g, transfer_node_indices[k][2], transfer_node_indices[k + 1][2],
                     OtherEdge("StayAtStation",
                               sub_u64(transfer_node_indices[k + 1][1],
                                       transfer_node_indices[k][1]))),
            transfer_node_indices, k + 1)

\* one station's arrivals: MainArrivalRelation edge, Alight edge
RECURSIVE arrivals_pass(_, _, _, _, _)
arrivals_pass(g, station, station_arrival_main_node_index, arrival_node_indices, k) ==
    IF k > Len(arrival_node_indices) THEN g
    ELSE
        LET arrival_node_index == arrival_node_indices[k][2]
            g1 == add_edge(g, arrival_node_index, station_arrival_main_node_index,
                           OtherEdge("MainArrivalRelation", 0))
            earliest_transfer_time == g.nodes[arrival_node_index].time + station.transfer_time
            transfer_node_index ==
                FirstTransferFrom(station.transfer_node_indices, earliest_transfer_time)
            g2 == IF transfer_node_index # 0
                  THEN add_edge(g1, arrival_node_index, transfer_node_index,
                                OtherEdge("Alight", station.transfer_time))
                  ELSE g1
        IN arrivals_pass(g2, station, station_arrival_main_node_index,
                         arrival_node_indices, k + 1)

RECURSIVE stations_pass(_, _, _, _)
stations_pass(b, stations, k, tie) ==
    IF k > Len(stations) THEN b
    ELSE
        LET station_id == stations[k].id
            station_arrival_main_node_index == Len(b.graph.nodes) + 1
            b1 == [b EXCEPT !.graph = add_node(@, MainArrival(station_id))]
            b2 == departures_pass(b1, station_id, 1)
            sorted == sort_unstable_by_key(b2.stations_map[station_id].transfer_node_indices,
                                           tie)
            sm == [b2.stations_map EXCEPT ![station_id].transfer_node_indices = sorted]
            g3 == transfers_pass(b2.graph, sorted, 1)
            g4 == arrivals_pass(g3, sm[station_id], station_arrival_main_node_index,
                                sm[station_id].arrival_node_indices, 1)
        IN stations_pass(
              [graph |-> g4,
               stations_map |-> sm,
               stations_departures |->
                   MapInsert(b.stations_departures, station_id, sorted),
               station_arrival_main_node_indices |->
                   MapInsert(b.station_arrival_main_node_indices, station_id,
                             station_arrival_main_node_index)],
              stations, k + 1, tie)

\* one footpath's arrivals at from_station: WalkToStation edges
RECURSIVE walks_pass(_, _, _, _, _)
walks_pass(g, footpath, arrival_node_indices, to_station, k) ==
    IF k > Len(arrival_node_indices) THEN g
    ELSE
        LET arrival_node_index == arrival_node_indices[k][2]
            earliest_transfer_time == g.nodes[arrival_node_index].time + footpath.duration
            transfer_node_index ==
                FirstTransferFrom(to_station.transfer_node_indices, earliest_transfer_time)
            g1 == IF transfer_node_index # 0
                  THEN add_edge(g, arrival_node_index, transfer_node_index,
                                OtherEdge("WalkToStation", footpath.duration))
                  ELSE g
        IN walks_pass(g1, footpath, arrival_node_indices, to_station, k + 1)

RECURSIVE footpaths_pass(_, _, _)
footpaths_pass(b, footpaths, k) ==
    IF k > Len(footpaths) THEN b
    ELSE
        LET footpath == footpaths[k] IN
        IF footpath.from_station \notin DOMAIN b.stations_map
           \/ footpath.to_station \notin DOMAIN b.stations_map
        THEN footpaths_pass(b, footpaths, k + 1)
        ELSE footpaths_pass(
                [b EXCEPT !.graph =
                    walks_pass(@, footpath,
                               b.stations_map[footpath.from_station].arrival_node_indices,
                               b.stations_map[footpath.to_station], 1)],
                footpaths, k + 1)

\* Model::with_stations_footpaths_and_trips, for inputs whose trips name known
\* stations
with_stations_footpaths_and_trips(in, tie) ==
    LET b1 == trips_pass(NewBuild(in), in.trips, 1)
        b2 == stations_pass(b1, in.stations, 1, tie)
        b3 == footpaths_pass(b2, in.footpaths, 1)
    IN [graph |-> b3.graph,
        stations_departures |-> b3.stations_departures,
        station_arrival_main_node_indices |-> b3.station_arrival_main_node_indices]

EmptyModel ==
    [graph |-> EmptyGraph, stations_departures |-> <<>>,
     station_arrival_main_node_indices |-> <<>>]

\* ------------------------------------------------------- path enumeration

\* graph.neighbors_directed(current, Outgoing): the outgoing edges, the most
\* recently added first
RECURSIVE OutgoingBelow(_, _, _)
OutgoingBelow(graph, current, k) ==
    IF k = 0 THEN <<>>
    ELSE (IF graph.edges[k].source = current THEN <<k>> ELSE <<>>)
         \o OutgoingBelow(graph, current, k - 1)

neighbors_directed_outgoing(graph, current) ==
    OutgoingBelow(graph, current, Len(graph.edges))

\* mutant: the capacity of the edge is not looked at
EdgeUsable_any_capacity(edge_weight, min_capacity, remaining_duration) ==
    get_duration(edge_weight) <= remaining_duration

\* the test an edge passes before the search descends through it
EdgeUsable(edge_weight, min_capacity, remaining_duration) ==
    /\ get_remaining_capacity(edge_weight) >= min_capacity
    /\ get_duration(edge_weight) <= remaining_duration

RECURSIVE all_paths_dfs_recursive_helper_exact(_, _, _, _, _, _, _)
RECURSIVE dfs_walker_exact(_, _, _, _, _, _, _, _)
RECURSIVE all_paths_dfs_recursive_helper(_, _, _, _, _, _, _)
RECURSIVE dfs_walker(_, _, _, _, _, _, _, _)

\* mutant: the two branches in the other order, so that the goal test is
\* reached only once the depth is used up
all_paths_dfs_recursive_helper_exact(graph, current, to, visited, min_capacity, remaining_duration, remaining_depth) ==
    IF remaining_depth > 0
    THEN dfs_walker_exact(graph, neighbors_directed_outgoing(graph, current), 1, to,
                          visited, min_capacity, remaining_duration, remaining_depth)
    ELSE IF current = to THEN <<visited>> ELSE <<>>

dfs_walker_exact(graph, out, k, to, visited, min_capacity, remaining_duration, remaining_depth) ==
    IF k > Len(out) THEN <<>>
    ELSE
        LET next_edge == out[k]
            edge_weight == graph.edges[next_edge].weight
            edge_duration == get_duration(edge_weight)
        IN (IF EdgeUsable(edge_weight, min_capacity, remaining_duration)
            THEN all_paths_dfs_recursive_helper_exact(
                    graph, graph.edges[next_edge].target, to, Append(visited, next_edge),
                    min_capacity, remaining_duration - edge_duration, remaining_depth - 1)
            ELSE <<>>)
           \o dfs_walker_exact(graph, out, k + 1, to, visited, min_capacity,
                               remaining_duration, remaining_depth)

\* Model::all_paths_dfs_recursive_helper; the value is what the call appends
\* to paths, in order
all_paths_dfs_recursive_helper(graph, current, to, visited, min_capacity, remaining_duration, remaining_depth) ==
    IF current = to THEN <<visited>>
    ELSE IF remaining_depth > 0
         THEN dfs_walker(graph, neighbors_directed_outgoing(graph, current), 1, to,
                         visited, min_capacity, remaining_duration, remaining_depth)
         ELSE <<>>

\* the while-let loop over the outgoing edges
dfs_walker(graph, out, k, to, visited, min_capacity, remaining_duration, remaining_depth) ==
    IF k > Len(out) THEN <<>>
    ELSE
        LET next_edge == out[k]
            edge_weight == graph.edges[next_edge].weight
            edge_duration == get_duration(edge_weight)
        IN (IF EdgeUsable(edge_weight, min_capacity, remaining_duration)
            THEN all_paths_dfs_recursive_helper(
                    graph, graph.edges[next_edge].target, to, Append(visited, next_edge),
                    min_capacity, remaining_duration - edge_duration, remaining_depth - 1)
            ELSE <<>>)
           \o dfs_walker(graph, out, k + 1, to, visited, min_capacity,
                         remaining_duration, remaining_depth)

all_paths_dfs_recursive(graph, from, to, min_capacity, max_duration, max_depth) ==
    all_paths_dfs_recursive_helper(graph, from, to, <<>>, min_capacity, max_duration,
                                   max_depth)

\* --------------------------------------------- path enumeration by budget

\* cost of traversing an edge (the cost table)
get_cost(w) ==
    CASE w.kind = "RideToStation" -> 2
      [] w.kind = "StayInTrain" -> 1
      [] w.kind = "Embark" -> 5
      [] w.kind = "Alight" -> 4
      [] w.kind = "StayAtStation" -> 3
      [] w.kind = "WalkToStation" -> 10
      [] OTHER -> 0

RECURSIVE SumOver(_, _, _)
SumOver(graph, edges, k) ==
    IF k > Len(edges) THEN 0
    ELSE get_duration(graph.edges[edges[k]].weight) + SumOver(graph, edges, k + 1)

\* Path::duration: the sum of the durations of the path's edges
PathDuration(graph, edges) == SumOver(graph, edges, 1)

RECURSIVE CostOver(_, _, _)
CostOver(graph, edges, k) ==
    IF k > Len(edges) THEN 0
    ELSE get_cost(graph.edges[edges[k]].weight) + CostOver(graph, edges, k + 1)

PathCost(graph, edges) == CostOver(graph, edges, 1)

RECURSIVE recursive_dfs_helper(_, _, _, _, _, _, _)
RECURSIVE budget_walker(_, _, _, _, _, _, _, _)

\* the depth-first search of one budget step: as the helper above, with the
\* cost budget in the place of the depth
recursive_dfs_helper(graph, current, to, visited, min_capacity, remaining_duration, remaining_budget) ==
    IF current = to
    THEN << [edges |-> visited,
             duration |-> PathDuration(graph, visited),
             remaining_budget |-> remaining_budget] >>
    ELSE budget_walker(graph, neighbors_directed_outgoing(graph, current), 1, to,
                       visited, min_capacity, remaining_duration, remaining_budget)

budget_walker(graph, out, k, to, visited, min_capacity, remaining_duration, remaining_budget) ==
    IF k > Len(out) THEN <<>>
    ELSE
        LET next_edge == out[k]
            edge_weight == graph.edges[next_edge].weight
            edge_duration == get_duration(edge_weight)
            edge_cost == get_cost(edge_weight)
        IN (IF /\ EdgeUsable(edge_weight, min_capacity, remaining_duration)
               /\ edge_cost <= remaining_budget
            THEN recursive_dfs_helper(
                    graph, graph.edges[next_edge].target, to, Append(visited, next_edge),
                    min_capacity, remaining_duration - edge_duration,
                    remaining_budget - edge_cost)
            ELSE <<>>)
           \o budget_walker(graph, out, k + 1, to, visited, min_capacity,
                            remaining_duration, remaining_budget)

RECURSIVE iddfs_from_step(_, _, _, _, _, _, _)
iddfs_from_step(graph, from, to, min_capacity, max_duration, steps, k) ==
    IF k > Len(steps) THEN <<>>
    ELSE
        LET paths == recursive_dfs_helper(graph, from, to, <<>>, min_capacity,
                                          max_duration, steps[k])
        IN IF Len(paths) > 0 THEN paths
           ELSE iddfs_from_step(graph, from, to, min_capacity, max_duration, steps, k + 1)

\* Path::all_paths_iddfs: the budget steps in order, stopping at the first one
\* that yields a path
all_paths_iddfs(graph, from, to, min_capacity, max_duration, steps) ==
    iddfs_from_step(graph, from, to, min_capacity, max_duration, steps, 1)

\* ------------------------------------------------------------ the indices

find_start_node_index(m, station_id, start_time) ==
    IF MapHas(m.stations_departures, station_id)
    THEN FirstTransferFrom(MapGet(m.stations_departures, station_id), start_time)
    ELSE 0

find_end_node_index(m, station_id) ==
    IF MapHas(m.station_arrival_main_node_indices, station_id)
    THEN MapGet(m.station_arrival_main_node_indices, station_id)
    ELSE 0

\* ------------------------------------------------------------ group search

calculate_max_travel_duration(travel_time) == 2 * travel_time + 50

\* Ord of Path: a path is the smaller one with less remaining budget and,
\* at equal remaining budget, with the longer duration
PathLess(p, q) ==
    \/ p.remaining_budget < q.remaining_budget
    \/ /\ p.remaining_budget = q.remaining_budget
       /\ p.duration > q.duration

PathEqual(p, q) ==
    /\ p.remaining_budget = q.remaining_budget
    /\ p.duration = q.duration

\* self.paths.sort_unstable(): ascending; equal paths in either order
RECURSIVE InsertPath(_, _, _)
InsertPath(sorted, x, tie) ==
    IF sorted = <<>> THEN <<x>>
    ELSE IF PathLess(x, Head(sorted)) \/ (tie /\ PathEqual(x, Head(sorted)))
         THEN <<x>> \o sorted
         ELSE <<Head(sorted)>> \o InsertPath(Tail(sorted), x, tie)

RECURSIVE sort_unstable(_, _)
sort_unstable(paths, tie) ==
    IF paths = <<>> THEN <<>>
    ELSE InsertPath(sort_unstable(SubSeq(paths, 1, Len(paths) - 1), tie),
                    paths[Len(paths)], tie)

\* mutant: the sorted list is not turned around
reverse_skipped(paths) == paths

\* self.paths.reverse()
reverse(paths) == [i \in 1..Len(paths) |-> paths[Len(paths) + 1 - i]]

\* the node search_paths starts from (it takes no account of in_trip)
SearchFrom(m, group) == find_start_node_index(m, group.start, group.departure)

SearchTo(m, group) == find_end_node_index(m, group.destination)

\* the two expect()s at the head of search_paths
SearchPanics(m, group) == SearchFrom(m, group) = 0 \/ SearchTo(m, group) = 0

\* mutant: the enumeration is asked for room for one passenger only
EnumeratePaths_single(m, group, steps) ==
    all_paths_iddfs(m.graph, SearchFrom(m, group), SearchTo(m, group), 1,
                    calculate_max_travel_duration(group.arrival - group.departure),
                    steps)

\* the call of all_paths_iddfs in search_paths
EnumeratePaths(m, group, steps) ==
    all_paths_iddfs(m.graph, SearchFrom(m, group), SearchTo(m, group),
                    group.passengers,
                    calculate_max_travel_duration(group.arrival - group.departure),
                    steps)

\* self.paths after search_paths, when it does not panic
SearchedPaths(m, group, steps, tie) ==
    IF group.departure > group.arrival THEN <<>>
    ELSE reverse(sort_unstable(EnumeratePaths(m, group, steps), tie))

\* ------------------------------------------------------------ augmentation

\* increase_utilization on every edge of a path, in order
RECURSIVE charge_path(_, _, _, _)
charge_path(graph, edges, k, addend) ==
    IF k > Len(edges) THEN graph
    ELSE charge_path(
            [graph EXCEPT !.edges[edges[k]].weight = increase_utilization(@, addend)],
            edges, k + 1, addend)

\* groups in descending party size, equal sizes in the order given
SortByPartySize(batch) ==
    LET keyed == [i \in 1..Len(batch) |-> <<0 - batch[i].passengers, batch[i]>>]
        sorted == sort_unstable_by_key(keyed, FALSE)
    IN [i \in 1..Len(batch) |-> sorted[i][2]]

\* ------------------------------------------- the enumeration, call by call

\* the deepest call stack looked at; a deeper one is a stack overflow
MaxStack == MaxBudget + MaxDepth

\* mutant: the depth is handed on as it is
next_remaining_depth_kept(remaining_depth) == remaining_depth

\* the remaining_depth handed to the recursive call
next_remaining_depth(remaining_depth) == remaining_depth - 1

\* a call of the helper that has not yet run
Call(current, remaining_duration, remaining) ==
    [current |-> current, remaining_duration |-> remaining_duration,
     remaining |-> remaining, entered |-> FALSE, walker |-> <<>>]

NoSearch ==
    [by |-> "none", from |-> 0, to |-> 0, min_capacity |-> 0, max_duration |-> 0,
     bound |-> 0, stack |-> <<>>, visited |-> <<>>, paths |-> <<>>]

\* whether the call descends from a node that is not the goal: the depth
\* search needs remaining_depth > 0, the search by budget always does
Descends(by, remaining) == by = "budget" \/ remaining > 0

\* whether the walker takes the edge
Takes(by, edge_weight, min_capacity, call) ==
    /\ EdgeUsable(edge_weight, min_capacity, call.remaining_duration)
    /\ by = "budget" => get_cost(edge_weight) <= call.remaining

\* the depth or the budget the recursive call gets
Remaining(by, edge_weight, remaining) ==
    IF by = "depth" THEN next_remaining_depth(remaining)
    ELSE remaining - get_cost(edge_weight)

\* ------------------------------------------------------ simulated annealing

\* one unit of the fixed-point numbers that stand for f64 values
SCALE == 10000

\* 100.0 / time.powf(2.0), in units of 1 / SCALE
time_to_temperature(time) == (100 * SCALE) \div (time * time)

\* exp(-n) for a natural n, in units of 1 / SCALE
RECURSIVE exp_whole(_)
exp_whole(n) == IF n = 0 THEN SCALE ELSE (exp_whole(n - 1) * 3679) \div SCALE

\* exp(-f / 100) for f in 0..99, in units of 1 / SCALE (series to the 4th power)
exp_frac(f) ==
    SCALE - 100 * f + (f * f) \div 2 - (f * f * f) \div 600 + (f * f * f * f) \div 240000

\* (delta_cost as f64 / temperature as f64).exp() for delta_cost <= 0, in
\* units of 1 / SCALE; below exp(-20) the value is under every draw
probability(delta_cost, temperature) ==
    IF (0 - delta_cost) * SCALE >= 20 * temperature THEN 0
    ELSE LET k == ((0 - delta_cost) * 100 * SCALE) \div temperature
         IN (exp_whole(k \div 100) * exp_frac(k % 100)) \div SCALE

\* rng.gen_range(0.0..1.0), in units of 1 / SCALE: a draw near 0 and one near 1
Draws == {1, SCALE - 1}

\* mutant: the comparison of the draw with the probability the other way round
accepts_above(delta_cost, temperature, random) ==
    IF delta_cost > 0 THEN TRUE
    ELSE random > probability(delta_cost, temperature)

\* whether the proposed state becomes the current one
accepts(delta_cost, temperature, random) ==
    IF delta_cost > 0 THEN TRUE
    ELSE random < probability(delta_cost, temperature)

\* cost of a selection: no path for a group, and a Ride edge that the
\* selected paths load beyond its capacity
UnassignedPenalty == 100

OverloadPenalty == 100

\* what the selected paths of the groups from k on put on edge e
RECURSIVE LoadOn(_, _, _, _)
LoadOn(gs, selection, e, k) ==
    IF k > Len(gs) THEN 0
    ELSE (IF selection[k] # 0 /\ \E i \in 1..Len(gs[k].paths[selection[k]].edges) :
                                    gs[k].paths[selection[k]].edges[i] = e
          THEN gs[k].passengers
          ELSE 0)
         + LoadOn(gs, selection, e, k + 1)

RECURSIVE SelectedDurations(_, _, _)
SelectedDurations(gs, selection, k) ==
    IF k > Len(gs) THEN 0
    ELSE (IF selection[k] # 0 THEN gs[k].paths[selection[k]].duration
          ELSE UnassignedPenalty)
         + SelectedDurations(gs, selection, k + 1)

\* SelectionState.cost
SelectionCost(graph, gs, selection) ==
    SelectedDurations(gs, selection, 1)
    + OverloadPenalty
        * Cardinality({e \in 1..Len(graph.edges) :
                        /\ is_ride_to_station(graph.edges[e].weight)
                        /\ LoadOn(gs, selection, e, 1) > graph.edges[e].weight.capacity})

SelectionState(graph, gs, selection) ==
    [groups_paths_selection |-> selection, cost |-> SelectionCost(graph, gs, selection)]

\* SelectionState::generate_random_state: one candidate path per group (none
\* for a group without candidates), decided by the seed
generate_random_state(graph, gs, seed) ==
    SelectionState(graph, gs,
        [k \in 1..Len(gs) |->
            IF Len(gs[k].paths) = 0 THEN 0 ELSE ((seed + k) % Len(gs[k].paths)) + 1])

\* SelectionState::generate_direct_neighbors: the states that differ from the
\* current one in the path of exactly one group, by group and path
RECURSIVE NeighborsFrom(_, _, _, _, _)
NeighborsFrom(graph, gs, selection, k, n) ==
    IF k > Len(gs) THEN <<>>
    ELSE IF n > Len(gs[k].paths) THEN NeighborsFrom(graph, gs, selection, k + 1, 1)
    ELSE (IF n # selection[k]
          THEN <<SelectionState(graph, gs, [selection EXCEPT ![k] = n])>>
          ELSE <<>>)
         \o NeighborsFrom(graph, gs, selection, k, n + 1)

generate_direct_neighbors(graph, gs, current) ==
    NeighborsFrom(graph, gs, current.groups_paths_selection, 1, 1)

\* mutant: the paths of the state are charged onto the graph it was
\* generated on
RECURSIVE graph_after_generate_charged(_, _, _)
graph_after_generate_charged(graph, gs, state) ==
    IF gs = <<>> THEN graph
    ELSE graph_after_generate_charged(
            IF Head(state.groups_paths_selection) # 0
            THEN charge_path(graph,
                             Head(gs).paths[Head(state.groups_paths_selection)].edges, 1,
                             Head(gs).passengers)
            ELSE graph,
            Tail(gs), [state EXCEPT !.groups_paths_selection = Tail(@)])

\* the graph handed to generate_random_state and generate_direct_neighbors,
\* after the call: they read it
graph_after_generate(graph, gs, state) == graph

\* neighbors.sort_unstable_by_key(|s| s.cost)
sorted_neighbors(neighbors, tie) ==
    LET keyed == [i \in 1..Len(neighbors) |-> <<neighbors[i].cost, neighbors[i]>>]
        sorted == sort_unstable_by_key(keyed, tie)
    IN [i \in 1..Len(neighbors) |-> sorted[i][2]]

\* the loop body from the sorted neighbors on, for one run: the proposed
\* state and the state that is current afterwards
anneal(neighbors, current, temperature, random) ==
    LET next == neighbors[1]
        delta_cost == current.cost - next.cost
    IN [before |-> current,
        next |-> next,
        random |-> random,
        temperature |-> temperature,
        current |-> IF accepts(delta_cost, temperature, random) THEN next ELSE current]

NoAnnealing == [seed |-> 0, time |-> 0, current |-> <<>>, last |-> <<>>, graph |-> EmptyGraph]

\* ------------------------------------------------------------------ inputs

Station(id, transfer_time) == [id |-> id, transfer_time |-> transfer_time]

Trip(id, from_station, departure, to_station, arrival, capacity) ==
    [id |-> id, from_station |-> from_station, to_station |-> to_station,
     departure |-> departure, arrival |-> arrival, capacity |-> capacity]

Footpath(from_station, to_station, duration) ==
    [from_station |-> from_station, to_station |-> to_station, duration |-> duration]

Group(id, start, destination, departure, arrival, passengers, in_trip) ==
    [id |-> id, start |-> start, destination |-> destination, departure |-> departure,
     arrival |-> arrival, passengers |-> passengers, in_trip |-> in_trip, paths |-> <<>>]

\* one direct trip
SingleTrip ==
    [stations |-> <<Station("A", 0), Station("B", 0)>>,
     trips |-> <<Trip(1, "A", 0, "B", 10, 5)>>,
     footpaths |-> <<>>]

\* one direct trip of capacity 2
SmallTrip ==
    [stations |-> <<Station("A", 0), Station("B", 0)>>,
     trips |-> <<Trip(1, "A", 0, "B", 10, 2)>>,
     footpaths |-> <<>>]

\* a change of trains at B, with a transfer time of 5
TransferAtB ==
    [stations |-> <<Station("A", 0), Station("B", 5), Station("C", 0)>>,
     trips |-> <<Trip(1, "A", 0, "B", 10, 10), Trip(2, "B", 20, "C", 30, 10)>>,
     footpaths |-> <<>>]

\* a walk from B to C; B's only departure is at 100; one footpath names an
\* unknown station
WalkToC ==
    [stations |-> <<Station("A", 0), Station("B", 0), Station("C", 0), Station("D", 0)>>,
     trips |-> <<Trip(1, "A", 0, "B", 10, 10), Trip(2, "C", 15, "D", 25, 10),
                 Trip(3, "B", 100, "A", 110, 10)>>,
     footpaths |-> <<Footpath("B", "C", 3), Footpath("X", "C", 3)>>]

\* trip 1 runs A - B - C, trip 2 runs A - C directly and is listed first
ThroughTrain ==
    [stations |-> <<Station("A", 0), Station("B", 0), Station("C", 0)>>,
     trips |-> <<Trip(2, "A", 5, "C", 30, 3), Trip(1, "A", 0, "B", 10, 4),
                 Trip(1, "B", 10, "C", 20, 4)>>,
     footpaths |-> <<>>]

\* trip 1 leaves from and arrives at A at time 0; both departures at A are at 0
LoopAtA ==
    [stations |-> <<Station("A", 0), Station("B", 0)>>,
     trips |-> <<Trip(1, "A", 0, "A", 0, 2), Trip(2, "A", 0, "B", 10, 4)>>,
     footpaths |-> <<>>]

\* trip 2 names a station that is not in the stations
UnknownStation ==
    [stations |-> <<Station("A", 0), Station("B", 0)>>,
     trips |-> <<Trip(1, "A", 0, "B", 10, 5), Trip(2, "B", 20, "X", 30, 5)>>,
     footpaths |-> <<>>]

\* B has departures at 5 and 20 and a transfer time of 2; the footpath B - C is
\* listed twice and one footpath leads from B to B
FootpathsAtB ==
    [stations |-> <<Station("A", 0), Station("B", 2), Station("C", 0)>>,
     trips |-> <<Trip(1, "A", 0, "B", 10, 5), Trip(2, "B", 5, "C", 15, 5),
                 Trip(3, "B", 20, "C", 30, 5), Trip(4, "C", 30, "A", 40, 5)>>,
     footpaths |-> <<Footpath("B", "C", 3), Footpath("B", "B", 4),
                     Footpath("B", "C", 3)>>]

Timetables ==
    {SingleTrip, SmallTrip, TransferAtB, WalkToC, ThroughTrain, LoopAtA, UnknownStation,
     FootpathsAtB}

GroupPool ==
    << Group(1, "A", "B", 0, 10, 3, 0),
       Group(2, "A", "B", 0, 10, 2, 0),
       Group(3, "A", "C", 0, 30, 1, 0),
       Group(4, "A", "C", 0, 30, 3, 0),
       Group(5, "B", "C", 10, 30, 1, 1),
       Group(6, "A", "D", 0, 25, 1, 0),
       Group(7, "A", "B", 40, 30, 1, 0),
       Group(8, "B", "C", 15, 10, 1, 0),
       Group(9, "A", "A", 0, 0, 1, 0) >>

\* the batches: up to MaxGroups groups of the pool, in the pool's order
Batches ==
    UNION { { [i \in 1..n |-> GroupPool[pick[i]]] :
                pick \in { f \in [1..n -> 1..Len(GroupPool)] :
                             \A i \in 1..(n - 1) : f[i] < f[i + 1] } } :
            n \in 1..MaxGroups }

BudgetStepChoices == { <<6>>, <<20>>, <<6, 20>>, <<6, 10, 24>> }

\* ----------------------------------------------------------------- actions

Init ==
    /\ pc = "build"
    /\ input \in Timetables
    /\ model = EmptyModel
    /\ groups = <<>>
    /\ budget_steps = <<>>
    /\ cur = 0
    /\ found = <<>>
    /\ sa = NoAnnealing
    /\ dfs = NoSearch

\* Model::with_stations_footpaths_and_trips
build_model ==
    /\ pc = "build"
    /\ IF TripsStationsKnown(input)
       THEN \E tie \in BOOLEAN :
                /\ model' = with_stations_footpaths_and_trips(input, tie)
                /\ pc' = "built"
       ELSE /\ pc' = "panic"
            /\ UNCHANGED model
    /\ UNCHANGED <<input, groups, budget_steps, cur, found, sa, dfs>>

\* the solver takes a batch of groups and the budget steps
solve_groups ==
    /\ pc = "built"
    /\ \E batch \in Batches, steps \in BudgetStepChoices :
            /\ groups' = SortByPartySize(batch)
            /\ budget_steps' = steps
    /\ cur' = 1
    /\ found' = <<>>
    /\ pc' = "search"
    /\ UNCHANGED <<input, model, sa, dfs>>

\* Group::search_paths on the current group
search_paths ==
    /\ pc = "search"
    /\ IF SearchPanics(model, groups[cur])
       THEN /\ pc' = "panic"
            /\ UNCHANGED <<groups, found>>
       ELSE \E tie \in BOOLEAN :
                LET paths == SearchedPaths(model, groups[cur], budget_steps, tie) IN
                /\ groups' = [groups EXCEPT ![cur].paths = paths]
                /\ found' = Append(found, Len(paths) # 0)
                /\ pc' = "augment"
    /\ UNCHANGED <<input, model, budget_steps, cur, sa, dfs>>

\* the solver charges the group onto its first path, if it has one, and goes
\* on to the next group
augment ==
    /\ pc = "augment"
    /\ model' = IF Len(groups[cur].paths) > 0
                THEN [model EXCEPT !.graph =
                        charge_path(@, groups[cur].paths[1].edges, 1,
                                    groups[cur].passengers)]
                ELSE model
    /\ cur' = cur + 1
    /\ pc' = IF cur = Len(groups) THEN "done" ELSE "search"
    /\ UNCHANGED <<input, groups, budget_steps, found, sa, dfs>>

Next == build_model \/ solve_groups \/ search_paths \/ augment

Spec == Init /\ [][Next]_vars

\* ------------------------------------------- the optimizer after the solver

\* the timetables the optimizer is run on
AnnealedTimetables == {SmallTrip, ThroughTrain}

InitSA == Init /\ input \in AnnealedTimetables

\* simulated_annealing up to the loop: two runs with the same arguments and
\* the same seed
simulated_annealing ==
    /\ pc = "done"
    /\ \E seed \in 1..MaxSeed :
        LET current == generate_random_state(model.graph, groups, seed) IN
        /\ sa' = [seed |-> seed, time |-> 1, current |-> <<current, current>>,
                  last |-> <<>>, graph |-> model.graph]
        /\ model' = [model EXCEPT !.graph = graph_after_generate(@, groups, current)]
    /\ pc' = "anneal"
    /\ UNCHANGED <<input, groups, budget_steps, cur, found, dfs>>

\* one pass of the loop of simulated_annealing, in both runs: return below
\* the temperature 0.1, panic on neighbors[0] without neighbors, else propose
\* and accept or reject with a draw of the thread's generator
anneal_step ==
    /\ pc = "anneal"
    /\ \E temperature \in {time_to_temperature(sa.time)} :
       IF temperature < SCALE \div 10
       THEN /\ pc' = "returned"
            /\ UNCHANGED <<sa, model>>
       ELSE \E neighbors \in {<<generate_direct_neighbors(model.graph, groups, sa.current[1]),
                                 generate_direct_neighbors(model.graph, groups, sa.current[2])>>} :
            IF neighbors[1] = <<>> \/ neighbors[2] = <<>>
            THEN /\ pc' = "sa_panic"
                 /\ UNCHANGED <<sa, model>>
            ELSE \E tie \in BOOLEAN :
                 \E sorted \in {<<sorted_neighbors(neighbors[1], tie),
                                   sorted_neighbors(neighbors[2], tie)>>} :
                 \E random1 \in Draws, random2 \in Draws :
                 \E last \in {<<anneal(sorted[1], sa.current[1], temperature, random1),
                                 anneal(sorted[2], sa.current[2], temperature, random2)>>} :
                    /\ sa' = [sa EXCEPT !.time = @ + 1,
                                        !.current = <<last[1].current, last[2].current>>,
                                        !.last = last]
                    /\ model' = [model EXCEPT !.graph =
                                    graph_after_generate(
                                        graph_after_generate(@, groups, last[1].next),
                                        groups, last[2].next)]
                    /\ pc' = "anneal"
    /\ UNCHANGED <<input, groups, budget_steps, cur, found, dfs>>

NextSA == Next \/ simulated_annealing \/ anneal_step

SpecSA == InitSA /\ [][NextSA]_vars

\* ------------------------------------------------ one enumeration, stepwise

\* the timetables the enumeration is stepped through on
EnumeratedTimetables == Timetables \ {UnknownStation}

\* depth bounds (all_paths_dfs_recursive) and budgets (one step of the search
\* by budget) the enumeration is started with
SearchBounds == {<<"depth", 2>>, <<"depth", MaxDepth>>, <<"budget", MaxBudget>>}

InitDFS == Init /\ input \in EnumeratedTimetables

\* all_paths_dfs_recursive: the launcher calls the helper on from
dfs_start ==
    /\ pc = "built"
    /\ \E k \in 1..Len(GroupPool), bound \in SearchBounds :
        LET group == GroupPool[k] IN
        /\ ~SearchPanics(model, group)
        /\ group.departure <= group.arrival
        /\ dfs' = [by |-> bound[1],
                   from |-> SearchFrom(model, group),
                   to |-> SearchTo(model, group),
                   min_capacity |-> group.passengers,
                   max_duration |->
                        calculate_max_travel_duration(group.arrival - group.departure),
                   bound |-> bound[2],
                   stack |-> <<Call(SearchFrom(model, group),
                                    calculate_max_travel_duration(
                                        group.arrival - group.departure),
                                    bound[2])>>,
                   visited |-> <<>>,
                   paths |-> <<>>]
    /\ pc' = "dfs"
    /\ UNCHANGED <<input, model, groups, budget_steps, cur, found, sa>>

\* the return of the innermost call: the caller pops the edge it pushed
Return ==
    [dfs EXCEPT !.stack = SubSeq(@, 1, Len(@) - 1),
                !.visited = IF Len(dfs.stack) > 1 THEN SubSeq(@, 1, Len(@) - 1) ELSE @]

\* one step of all_paths_dfs_recursive_helper in the innermost call: the
\* goal test on entry, then one turn of the loop over the outgoing edges
dfs_step ==
    /\ pc = "dfs"
    /\ LET depth == Len(dfs.stack)
           call == dfs.stack[depth]
       IN
       IF ~call.entered
       THEN IF call.current = dfs.to
            THEN /\ dfs' = [Return EXCEPT !.paths = Append(@, dfs.visited)]
                 /\ pc' = IF depth = 1 THEN "dfs_done" ELSE "dfs"
            ELSE IF Descends(dfs.by, call.remaining)
            THEN /\ dfs' = [dfs EXCEPT
                            !.stack[depth].entered = TRUE,
                            !.stack[depth].walker =
                                neighbors_directed_outgoing(model.graph, call.current)]
                 /\ pc' = "dfs"
            ELSE /\ dfs' = Return
                 /\ pc' = IF depth = 1 THEN "dfs_done" ELSE "dfs"
       ELSE IF call.walker = <<>>
            THEN /\ dfs' = Return
                 /\ pc' = IF depth = 1 THEN "dfs_done" ELSE "dfs"
            ELSE LET next_edge == Head(call.walker)
                     edge_weight == model.graph.edges[next_edge].weight
                 IN IF Takes(dfs.by, edge_weight, dfs.min_capacity, call)
                    THEN IF depth >= MaxStack
                         THEN /\ pc' = "stack_overflow"
                              /\ UNCHANGED dfs
                         ELSE /\ dfs' = [dfs EXCEPT
                                    !.stack = Append(
                                        [@ EXCEPT ![depth].walker = Tail(call.walker)],
                                        Call(model.graph.edges[next_edge].target,
                                             call.remaining_duration
                                                - get_duration(edge_weight),
                                             Remaining(dfs.by, edge_weight,
                                                       call.remaining))),
                                    !.visited = Append(@, next_edge)]
                              /\ pc' = "dfs"
                    ELSE /\ dfs' = [dfs EXCEPT !.stack[depth].walker = Tail(call.walker)]
                         /\ pc' = "dfs"
    /\ UNCHANGED <<input, model, groups, budget_steps, cur, found, sa>>

NextDFS == build_model \/ dfs_start \/ dfs_step

\* the enumeration runs in one thread: a call that has a step to take takes it
SpecDFS == InitDFS /\ [][NextDFS]_vars /\ WF_vars(dfs_step)

\* ------------------------------------------------------------- properties

\* the builder has returned a model
Built == pc \in {"built", "search", "augment", "done"} \/ (pc = "panic" /\ cur > 0)

NodeIds == 1..Len(model.graph.nodes)

EdgeIds == 1..Len(model.graph.edges)

RideEdges == {e \in EdgeIds : is_ride_to_station(model.graph.edges[e].weight)}

\* the groups search_paths has returned for, and those already charged
Searched == 1..Len(found)

Augmented == 1..(cur - 1)

Range(seq) == {seq[i] : i \in 1..Len(seq)}

EdgeSeqs(paths) == {paths[i].edges : i \in 1..Len(paths)}

MaxDurationOf(group) == calculate_max_travel_duration(group.arrival - group.departure)

\* the edges lead from node from to node to, each starting where the one
\* before it ends
Connected(graph, edges, from, to) ==
    /\ Len(edges) >= 1
    /\ graph.edges[edges[1]].source = from
    /\ graph.edges[edges[Len(edges)]].target = to
    /\ \A k \in 1..(Len(edges) - 1) :
            graph.edges[edges[k]].target = graph.edges[edges[k + 1]].source

\* the search of one budget step, for the query search_paths makes for group
StepPaths(group, budget) ==
    recursive_dfs_helper(model.graph, SearchFrom(model, group), SearchTo(model, group),
                         <<>>, group.passengers, MaxDurationOf(group), budget)

\* the depth-bounded search for the same query
DepthPaths(group, max_depth) ==
    all_paths_dfs_recursive(model.graph, SearchFrom(model, group), SearchTo(model, group),
                            group.passengers, MaxDurationOf(group), max_depth)

\* the current group's query can be enumerated on the graph as it is now
Enumerable ==
    /\ pc \in {"search", "augment"}
    /\ ~SearchPanics(model, groups[cur])
    /\ groups[cur].departure <= groups[cur].arrival

\* what the groups charged so far add up to on edge e
RECURSIVE ChargedOn(_, _)
ChargedOn(e, i) ==
    IF i <= 0 THEN 0
    ELSE ChargedOn(e, i - 1)
         + (IF Len(groups[i].paths) > 0 /\ e \in Range(groups[i].paths[1].edges)
            THEN groups[i].passengers
            ELSE 0)

\* C1: after any sequence of augmentations every Ride edge has
\* 0 <= utilization <= capacity, so capacity - utilization never underflows.
C1_UtilizationWithinCapacity ==
    \A e \in RideEdges :
        /\ 0 <= model.graph.edges[e].weight.utilization
        /\ model.graph.edges[e].weight.utilization <= model.graph.edges[e].weight.capacity

\* two groups have been charged and fill a Ride edge to its capacity
C1_Witness ==
    /\ pc = "done"
    /\ found = <<TRUE, TRUE>>
    /\ \E e \in RideEdges :
            /\ model.graph.edges[e].weight.utilization = model.graph.edges[e].weight.capacity
            /\ e \in Range(groups[1].paths[1].edges)
            /\ e \in Range(groups[2].paths[1].edges)

\* C2: the utilization of a Ride edge is the sum of the party sizes of the
\* groups charged so far whose first path contains the edge (at the end: of all
\* groups); a group without a path adds nothing.
C2_AugmentationAccounting ==
    \A e \in RideEdges :
        model.graph.edges[e].weight.utilization = ChargedOn(e, cur - 1)

\* all groups are solved, one found no path and one was charged
C2_Witness ==
    /\ pc = "done"
    /\ \E i, j \in 1..Len(groups) :
            /\ Len(groups[i].paths) = 0
            /\ Len(groups[j].paths) > 0
            /\ \E e \in RideEdges :
                    /\ e \in Range(groups[j].paths[1].edges)
                    /\ model.graph.edges[e].weight.utilization = groups[j].passengers

\* C3: every path of a searched group leads from the source to the sink within
\* max_duration and within the budget step that emitted it; when the paths
\* are emitted every Ride edge on them has room for the party; the same holds
\* of the depth-bounded search with the depth in the place of the budget.
C3_PathsAreFeasible ==
    /\ \A i \in Searched :
        LET group == groups[i]
            from == SearchFrom(model, group)
            to == SearchTo(model, group)
        IN \E k \in 1..Len(budget_steps) :
              \A n \in 1..Len(group.paths) :
                LET path == group.paths[n] IN
                /\ Connected(model.graph, path.edges, from, to)
                /\ PathDuration(model.graph, path.edges) <= MaxDurationOf(group)
                /\ path.duration = PathDuration(model.graph, path.edges)
                /\ PathCost(model.graph, path.edges) <= budget_steps[k]
                /\ path.remaining_budget =
                        budget_steps[k] - PathCost(model.graph, path.edges)
    /\ pc = "augment" =>
        \A n \in 1..Len(groups[cur].paths) :
            \A e \in Range(groups[cur].paths[n].edges) :
                get_remaining_capacity(model.graph.edges[e].weight)
                    >= groups[cur].passengers
    /\ Enumerable =>
        \A max_depth \in 0..MaxDepth :
            LET group == groups[cur]
                paths == DepthPaths(group, max_depth)
            IN \A n \in 1..Len(paths) :
                /\ Connected(model.graph, paths[n], SearchFrom(model, group),
                             SearchTo(model, group))
                /\ PathDuration(model.graph, paths[n]) <= MaxDurationOf(group)
                /\ Len(paths[n]) <= max_depth
                /\ \A e \in Range(paths[n]) :
                        get_remaining_capacity(model.graph.edges[e].weight)
                            >= group.passengers

\* paths have just been emitted over a Ride edge that is partly used
C3_Witness ==
    /\ pc = "augment"
    /\ Len(groups[cur].paths) >= 2
    /\ \E e \in RideEdges :
            /\ e \in Range(groups[cur].paths[1].edges)
            /\ model.graph.edges[e].weight.utilization > 0

C5_BudgetMonotonicity ==
    (Enumerable /\ pc = "search") =>
        /\ \A byBudget \in {{<<b, EdgeSeqs(StepPaths(groups[cur], b))>> : b \in 0..MaxBudget}} :
                \A x, y \in byBudget : x[1] < y[1] => x[2] \subseteq y[2]
        /\ \A byDepth \in {{<<d, Range(DepthPaths(groups[cur], d))>> : d \in 0..MaxDepth}} :
                \A x, y \in byDepth : x[1] < y[1] => x[2] \subseteq y[2]

\* a smaller budget finds a path and a larger one finds more
C5_Witness ==
    /\ Enumerable
    /\ pc = "search"
    /\ Len(StepPaths(groups[cur], 7)) > 0
    /\ Len(StepPaths(groups[cur], MaxBudget)) > Len(StepPaths(groups[cur], 7))
    /\ Len(DepthPaths(groups[cur], 4)) > 0
    /\ Len(DepthPaths(groups[cur], 6)) > Len(DepthPaths(groups[cur], 4))

\* C6: the search for a group with in_trip = T starts from the Arrival node
\* of trip T at the group's start station.
C6_SourceIsArrivalOfTrip ==
    \A i \in Searched :
        groups[i].in_trip # 0 =>
            LET from == model.graph.nodes[SearchFrom(model, groups[i])] IN
            /\ from.kind = "Arrival"
            /\ from.trip_id = groups[i].in_trip
            /\ from.station_id = groups[i].start

\* the Transfer nodes of station_id with time >= start_time
EligibleTransfers(station_id, start_time) ==
    {n \in NodeIds :
        /\ model.graph.nodes[n].kind = "Transfer"
        /\ model.graph.nodes[n].station_id = station_id
        /\ model.graph.nodes[n].time >= start_time}

QueryTimes ==
    {0} \cup {model.graph.nodes[n].time : n \in NodeIds}
        \cup {model.graph.nodes[n].time + 1 : n \in NodeIds}

\* C7: find_start_node_index(station, t) is a Transfer node of the station
\* with the least time among those with time >= t, and None when the station
\* is unknown or has no such Transfer; it is where the search for a group
\* with in_trip unset starts.
C7_EarliestTransfer ==
    Built =>
        /\ \A station_id \in StationIds(input) \cup {"X"}, start_time \in QueryTimes :
            LET r == find_start_node_index(model, station_id, start_time)
                eligible == EligibleTransfers(station_id, start_time)
            IN IF eligible = {} THEN r = 0
               ELSE /\ r \in eligible
                    /\ \A n \in eligible :
                            model.graph.nodes[r].time <= model.graph.nodes[n].time
        /\ \A i \in Searched :
            (groups[i].in_trip = 0 /\ Len(groups[i].paths) > 0) =>
                LET from == model.graph.edges[groups[i].paths[1].edges[1]].source IN
                /\ from \in EligibleTransfers(groups[i].start, groups[i].departure)
                /\ \A n \in EligibleTransfers(groups[i].start, groups[i].departure) :
                        model.graph.nodes[from].time <= model.graph.nodes[n].time

\* a group with in_trip unset was searched from a station with transfers at
\* two times, and a later start time picks the later transfer
C7_Witness ==
    /\ pc = "augment"
    /\ groups[cur].in_trip = 0
    /\ Len(groups[cur].paths) > 0
    /\ \E t \in QueryTimes :
            /\ find_start_node_index(model, groups[cur].start, t) # 0
            /\ find_start_node_index(model, groups[cur].start, t)
                    # find_start_node_index(model, groups[cur].start, 0)

\* C8: a group without a source node, without a sink node or without a path
\* is recorded with no paths, and the solver goes on with the next group.
C8_InfeasibleGroupIsRecorded ==
    Built =>
        /\ pc # "panic"
        /\ \A i \in Searched :
            (SearchPanics(model, groups[i]) \/ ~found[i]) =>
                (groups[i].paths = <<>> /\ ~found[i])

\* C9: search_paths on a group with earliest_departure > desired_arrival
\* returns false and leaves the group without paths, whatever the model.
C9_LateDepartureIsSkipped ==
    \A i \in 1..Len(groups) :
        (i <= cur /\ pc # "search" /\ groups[i].departure > groups[i].arrival) =>
            /\ i \in Searched
            /\ groups[i].paths = <<>>
            /\ ~found[i]

\* C10: a searched group's paths are in descending remaining budget and, at
\* equal remaining budget, in ascending duration; the group is charged onto
\* the first of them.
C10_RankedPaths ==
    /\ \A i \in Searched :
        \A a, b \in 1..Len(groups[i].paths) :
            a < b =>
                \/ groups[i].paths[a].remaining_budget > groups[i].paths[b].remaining_budget
                \/ /\ groups[i].paths[a].remaining_budget = groups[i].paths[b].remaining_budget
                   /\ groups[i].paths[a].duration <= groups[i].paths[b].duration
    /\ \A i \in Augmented :
        Len(groups[i].paths) > 0 =>
            \A e \in Range(groups[i].paths[1].edges) \cap RideEdges :
                model.graph.edges[e].weight.utilization >= groups[i].passengers

\* a charged group has two paths of equal remaining budget and different
\* duration, and a third of less remaining budget
C10_Witness ==
    /\ pc = "done"
    /\ \E i \in Augmented :
            /\ Len(groups[i].paths) >= 3
            /\ groups[i].paths[1].remaining_budget = groups[i].paths[2].remaining_budget
            /\ groups[i].paths[1].duration < groups[i].paths[2].duration
            /\ groups[i].paths[2].remaining_budget > groups[i].paths[3].remaining_budget

\* -------------------------------------------------- properties of the graph

\* the trips and footpaths whose stations are all in the stations
KnownTrips == {k \in 1..Len(input.trips) :
                /\ input.trips[k].from_station \in StationIds(input)
                /\ input.trips[k].to_station \in StationIds(input)}

KnownFootpaths == {k \in 1..Len(input.footpaths) :
                    /\ input.footpaths[k].from_station \in StationIds(input)
                    /\ input.footpaths[k].to_station \in StationIds(input)}

EdgesOfKind(kind) == {e \in EdgeIds : model.graph.edges[e].weight.kind = kind}

NodesOfKind(kind) == {n \in NodeIds : model.graph.nodes[n].kind = kind}

TransferTimeOf(station_id) ==
    input.stations[CHOOSE i \in 1..Len(input.stations) :
                        input.stations[i].id = station_id].transfer_time

\* the transfer list the builder saved for a station
TransferChain(station_id) == MapGet(model.stations_departures, station_id)

\* C11: a trip or footpath that names a station not in the stations is
\* skipped and the builder goes on: it returns a model, and the model has a
\* Ride edge for each of the other trips and no node at an unknown station.
C11_DanglingRecordIsSkipped ==
    pc # "build" =>
        /\ Built
        /\ \A n \in NodeIds : model.graph.nodes[n].station_id \in StationIds(input)
        /\ Cardinality(RideEdges) = Cardinality(KnownTrips)
        /\ \A e \in EdgesOfKind("WalkToStation") :
                \E k \in KnownFootpaths :
                    /\ model.graph.nodes[model.graph.edges[e].source].station_id
                            = input.footpaths[k].from_station
                    /\ model.graph.nodes[model.graph.edges[e].target].station_id
                            = input.footpaths[k].to_station

\* C12: the transfer chain of every station is in strictly ascending time,
\* consecutive transfers are linked by exactly one StayAtStation edge, and the
\* edge's duration is the difference of the two times.
C12_TransferChainStrictlySorted ==
    Built =>
        \A station_id \in StationIds(input) :
            LET chain == TransferChain(station_id) IN
            \A k \in 1..(Len(chain) - 1) :
                LET links == {e \in EdgesOfKind("StayAtStation") :
                                /\ model.graph.edges[e].source = chain[k][2]
                                /\ model.graph.edges[e].target = chain[k + 1][2]}
                IN /\ chain[k][1] < chain[k + 1][1]
                   /\ Cardinality(links) = 1
                   /\ \A e \in links :
                        model.graph.edges[e].weight.duration = chain[k + 1][1] - chain[k][1]

\* the Alight edges that leave node a
AlightsOf(a) == {e \in EdgesOfKind("Alight") : model.graph.edges[e].source = a}

EdgesIntoChain(a, station_id) ==
    {e \in EdgesOfKind("Alight") \cup EdgesOfKind("WalkToStation") :
        /\ model.graph.edges[e].source = a
        /\ model.graph.nodes[model.graph.edges[e].target].station_id = station_id}

\* C14: from an Arrival there is at most one Alight or WalkToStation edge
\* into the transfer chain of any one station; a WalkToStation edge leads to
\* the earliest Transfer at or after the arrival time plus the footpath's
\* duration and has that duration; whatever footpaths are listed.
C14_OneEdgeIntoEachChain ==
    Built =>
        /\ \A a \in NodesOfKind("Arrival"), station_id \in StationIds(input) :
                Cardinality(EdgesIntoChain(a, station_id)) <= 1
        /\ \A e \in EdgesOfKind("WalkToStation") :
                LET a == model.graph.edges[e].source
                    t == model.graph.edges[e].target
                IN \E k \in KnownFootpaths :
                    /\ input.footpaths[k].from_station = model.graph.nodes[a].station_id
                    /\ input.footpaths[k].to_station = model.graph.nodes[t].station_id
                    /\ model.graph.edges[e].weight.duration = input.footpaths[k].duration
                    /\ model.graph.nodes[t].time
                            >= model.graph.nodes[a].time + input.footpaths[k].duration
                    /\ \A n \in EligibleTransfers(model.graph.nodes[t].station_id,
                                    model.graph.nodes[a].time + input.footpaths[k].duration) :
                            model.graph.nodes[t].time <= model.graph.nodes[n].time

\* the kinds of the edges of a path, in order
KindsOf(edges) == [k \in 1..Len(edges) |-> model.graph.edges[edges[k]].weight.kind]

\* C15: on the timetable with the change at B (transfer time 5) the path
\* chosen for the group A - C, departure 0, arrival 30, one passenger, has
\* an Alight edge of duration 5, a StayAtStation edge, an Embark and a
\* RideToStation edge, and a duration of 30.
C15_ChangeAtBTakesThirty ==
    (/\ input = TransferAtB
     /\ pc = "augment"
     /\ groups[cur] = [Group(3, "A", "C", 0, 30, 1, 0) EXCEPT !.paths = groups[cur].paths]
     /\ Len(groups[cur].paths) > 0) =>
        LET path == groups[cur].paths[1] IN
        /\ \E e \in Range(path.edges) :
                /\ model.graph.edges[e].weight.kind = "Alight"
                /\ model.graph.edges[e].weight.duration = 5
        /\ \E k \in 1..(Len(path.edges) - 3) :
                /\ KindsOf(path.edges)[k] = "Alight"
                /\ KindsOf(path.edges)[k + 1] = "StayAtStation"
                /\ KindsOf(path.edges)[k + 2] = "Embark"
                /\ KindsOf(path.edges)[k + 3] = "RideToStation"
        /\ path.duration = 30
        /\ PathDuration(model.graph, path.edges) = 30

\* --------------------------------------------- properties of the optimizer

\* what a step of the solver may do to the model
OnlyUtilizationChanges ==
    pc \in {"built", "search", "augment"} =>
        /\ model'.graph.nodes = model.graph.nodes
        /\ Len(model'.graph.edges) = Len(model.graph.edges)
        /\ model'.stations_departures = model.stations_departures
        /\ model'.station_arrival_main_node_indices = model.station_arrival_main_node_indices
        /\ \A e \in EdgeIds :
            LET old == model.graph.edges[e]
                new == model'.graph.edges[e]
                charged == /\ pc = "augment"
                           /\ Len(groups[cur].paths) > 0
                           /\ e \in Range(groups[cur].paths[1].edges)
                           /\ is_ride_to_station(old.weight)
            IN /\ new.source = old.source
               /\ new.target = old.target
               /\ new.weight.kind = old.weight.kind
               /\ new.weight.duration = old.weight.duration
               /\ new.weight.capacity = old.weight.capacity
               /\ new.weight.utilization =
                    IF charged THEN old.weight.utilization + groups[cur].passengers
                    ELSE old.weight.utilization
               /\ ~is_ride_to_station(old.weight) =>
                    /\ new.weight = old.weight
                    /\ get_remaining_capacity(new.weight) = U64_MAX
                    /\ \A addend \in 1..3 : increase_utilization(old.weight, addend) = old.weight

\* C16: a step of the solver adds and removes no node and no edge and changes
\* no weight, except that augmenting raises the utilization of the Ride
\* edges of the current group's first path by the party size; edges of the
\* other kinds keep unbounded remaining capacity, and a group without a path
\* changes nothing.
C16_SolverChangesOnlyUtilization == [][OnlyUtilizationChanges]_vars

\* a party of 3 found no path over the Ride edge of capacity 2 and a party of
\* 2 was charged onto it
C16_Witness ==
    /\ pc = "done"
    /\ input = SmallTrip
    /\ found = <<FALSE, TRUE>>
    /\ groups[1].passengers = 3
    /\ \A e \in RideEdges : model.graph.edges[e].weight.utilization = 2
    /\ \E e \in EdgeIds \ RideEdges : e \in Range(groups[2].paths[1].edges)

\* C17: simulated_annealing ends by returning, for every input: it returns
\* when the time is 32, the first time with temperature below 0.1, after 31
\* passes of the loop.
C17_AnnealingHaltsAtThirtyTwo ==
    /\ pc # "sa_panic"
    /\ pc = "anneal" => sa.time \in 1..32
    /\ pc = "returned" =>
        /\ sa.time = 32
        /\ time_to_temperature(sa.time) < SCALE \div 10
        /\ \A time \in 1..(sa.time - 1) : time_to_temperature(time) >= SCALE \div 10

C19_SameSeedSameRun ==
    pc \in {"anneal", "returned"} =>
        /\ sa.current[1] = sa.current[2]
        /\ sa.last # <<>> =>
            /\ sa.last[1].next = sa.last[2].next
            /\ (sa.last[1].current = sa.last[1].next)
                    <=> (sa.last[2].current = sa.last[2].next)

\* the selections that differ from selection in the path of exactly one group
DirectNeighbors(selection) ==
    UNION {{[selection EXCEPT ![k] = n] :
                n \in (1..Len(groups[k].paths)) \ {selection[k]}} :
            k \in 1..Len(groups)}

NoRepeatedEdge(edges) == \A a, b \in 1..Len(edges) : a # b => edges[a] # edges[b]

\* no sequence comes twice in the list
NoRepeatedPath(paths) == \A a, b \in 1..Len(paths) : a # b => paths[a] # paths[b]

\* C22: no path of a searched group, and no path of the depth-bounded
\* search, has an edge twice, and no two paths of one search are the same
\* sequence of edges; so the charged path raises each of its Ride edges by
\* the party size once.
C22_NoEdgeTwice ==
    /\ \A i \in Searched :
        /\ \A n \in 1..Len(groups[i].paths) : NoRepeatedEdge(groups[i].paths[n].edges)
        /\ NoRepeatedPath([n \in 1..Len(groups[i].paths) |-> groups[i].paths[n].edges])
    /\ (Enumerable /\ pc = "search") =>
        \A paths \in {DepthPaths(groups[cur], MaxDepth)} :
            /\ \A n \in 1..Len(paths) : NoRepeatedEdge(paths[n])
            /\ NoRepeatedPath(paths)
    /\ \A i \in Augmented :
        Len(groups[i].paths) > 0 =>
            \A e \in RideEdges :
                Cardinality({k \in 1..Len(groups[i].paths[1].edges) :
                                groups[i].paths[1].edges[k] = e}) <= 1

\* the calls on the stack, from the second on, got less depth or budget than
\* their callers, or stand on a node without outgoing edges
BoundDecreases ==
    pc = "dfs" =>
        \A k \in 2..Len(dfs.stack) :
            \/ dfs.stack[k].remaining < dfs.stack[k - 1].remaining
            \/ /\ model.graph.nodes[dfs.stack[k].current].kind = "MainArrival"
               /\ neighbors_directed_outgoing(model.graph, dfs.stack[k].current) = <<>>

\* the stepped enumeration returns what the enumeration returns
ReturnsThePaths ==
    pc = "dfs_done" =>
        IF dfs.by = "depth"
        THEN dfs.paths = all_paths_dfs_recursive(model.graph, dfs.from, dfs.to,
                                                 dfs.min_capacity, dfs.max_duration,
                                                 dfs.bound)
        ELSE \A paths \in {recursive_dfs_helper(model.graph, dfs.from, dfs.to, <<>>,
                                                dfs.min_capacity, dfs.max_duration,
                                                dfs.bound)} :
                dfs.paths = [n \in 1..Len(paths) |-> paths[n].edges]

\* C21: an enumeration that was started returns, for every graph built and
\* every depth or budget, edges of duration 0 included: every call gets less
\* depth or budget than its caller or stands on the sink, which has no
\* outgoing edge, so the stack never grows beyond the bound.
C21_EnumerationTerminates ==
    /\ (pc = "dfs") ~> (pc = "dfs_done")
    /\ [](pc # "stack_overflow")
    /\ []BoundDecreases
    /\ []ReturnsThePaths

\* an enumeration has returned that went round the loop of Ride and
\* StayInTrain edges of duration 0 and through an Embark edge
C21_Witness ==
    /\ pc = "dfs_done"
    /\ \E n \in 1..Len(dfs.paths) :
            /\ ~NoRepeatedEdge(dfs.paths[n])
            /\ PathDuration(model.graph, dfs.paths[n]) = 0
            /\ \E k \in 1..Len(dfs.paths[n]) :
                    model.graph.edges[dfs.paths[n][k]].weight.kind = "StayInTrain"

====
